---- MODULE Spec2Model ----
(***************************************************************************)
(* A model of util/file/file.go of nanobox: Copy (copyDir, copyFile), Tar, *)
(* Untar, Download and Progress.                                           *)
(*                                                                         *)
(* A filesystem is a function from paths to nodes. A path is a sequence of *)
(* names relative to the root the operation was given (src for Copy, path  *)
(* for Tar); Untar uses the header names verbatim, so the same paths index *)
(* the disk it restores onto. A mode is the set of permission bits of an   *)
(* os.FileMode; the kind of the node is its type bits.                     *)
(***************************************************************************)
EXTENDS Integers, Sequences, FiniteSets, TLC

VARIABLES
    op,           \* the operation called last, or "none"
    tree,         \* the source tree (read only): path -> node
    disk,         \* the filesystem written to: Copy's dst, Untar's target
    disk0,        \* disk as it was before the first call (history)
    umask,        \* the process's file mode creation mask
    result,       \* "init", "running", "nil", "err", "panic", "exit"
    fault,        \* the first failure the environment injected, or "none"
    openHandles,  \* handles opened by the call and not closed
    stack,        \* copyDir's call stack: frames [path, state, todo]
    walk,         \* filepath.Walk's remaining visits, in order
    stream,       \* the archive: [gzipOk, entries, end]
    pos,          \* Untar: index of the next header tr.Next() returns
    made,         \* Untar: indices of the entries it materialized (history)
    net           \* the transfer session of Download / Progress

vars == <<op, tree, disk, disk0, umask, result, fault, openHandles, stack, walk,
          stream, pos, made, net>>

--------------------------------------------------------------------------
(* Bounds of the model *)

\* the deepest path of a tree
MaxDepth == 2

\* "b" names a subdirectory, "f" a file or a non-regular entry
DirName == "b"
FileName == "f"
Names == {DirName, FileName}

\* lexical order of the names, as filepath.Walk sorts them
NameOrder == <<DirName, FileName>>

Paths == UNION {[1..n -> Names] : n \in 0..MaxDepth}

Root == <<>>

Parent(p) == SubSeq(p, 1, Len(p) - 1)

\* permission bits
Mode644 == {"ur", "uw", "gr", "or"}
Mode775 == {"ur", "uw", "ux", "gr", "gw", "gx", "or", "ox"}
\* os.Create opens with 0666
Mode666 == {"ur", "uw", "gr", "gw", "or", "ow"}
Mode700 == {"ur", "uw", "ux"}
ModeChoices == {Mode644, Mode775}
\* umask 000 and umask 022
UmaskChoices == {{}, {"gw", "ow"}}

SrcData == <<7>>
StaleData == <<9>>

None == [kind |-> "none", mode |-> {}, data |-> <<>>]
Dir(m) == [kind |-> "dir", mode |-> m, data |-> <<>>]
Reg(m, d) == [kind |-> "reg", mode |-> m, data |-> d]
Other == [kind |-> "other", mode |-> {}, data |-> <<>>]

EmptyDisk == [p \in Paths |-> None]

\* the nodes a path may hold in a source tree whose directories have mode dm
NodeChoices(p, dm) ==
    IF p[Len(p)] = DirName THEN {None, Dir(dm)}
    ELSE {None, Other} \cup {Reg(m, SrcData) : m \in ModeChoices}

\* every entry lies in a directory
Allowed(t, p, dm) ==
    IF t[Parent(p)].kind = "dir" THEN NodeChoices(p, dm) ELSE {None}

\* the trees of depth n at most, built a level at a time
RECURSIVE Grow(_, _, _), TreesTo(_, _)
Grow(T, ps, dm) ==
    IF ps = {} THEN T
    ELSE LET p == CHOOSE x \in ps : TRUE IN
         Grow(UNION {{[q \in Paths |-> IF q = p THEN n ELSE t[q]] :
                        n \in Allowed(t, p, dm)} : t \in T},
              ps \ {p}, dm)
TreesTo(n, dm) ==
    IF n = 0 THEN {[q \in Paths |-> IF q = Root THEN Dir(dm) ELSE None]}
    ELSE Grow(TreesTo(n - 1, dm), [1..n -> Names], dm)

Trees == UNION {TreesTo(MaxDepth, dm) : dm \in ModeChoices}

\* the target before the call: nothing, the files and directories of the
\* source themselves (a restore in place), the directories only, or
\* directories and files left by an earlier run with stale content; what an
\* earlier run left has mode 0700, which no source entry has
Same(t) == [p \in Paths |-> IF t[p].kind = "other" THEN None ELSE t[p]]
PreDirs(t) == [p \in Paths |-> IF t[p].kind = "dir" THEN Dir(Mode700) ELSE None]
Stale(t) ==
    [p \in Paths |-> IF t[p].kind = "dir" THEN Dir(Mode700)
                     ELSE IF t[p].kind = "reg" THEN Reg(Mode700, StaleData)
                     ELSE None]

Children(t, p) ==
    {n \in Names : Len(p) < MaxDepth /\ t[Append(p, n)].kind # "none"}

--------------------------------------------------------------------------
(* System calls *)

\* a mutation of IsRegular: everything that is not a directory
IsNotDir(nd) == nd.kind \in {"reg", "other"}

\* fi.Mode().IsRegular() and fi.Mode().IsDir()
IsRegular(nd) == nd.kind = "reg"
IsDir(nd) == nd.kind = "dir"

Ret(d, e) == [disk |-> d, err |-> e]

\* os.MkdirAll(path, perm): nil when path is a directory already (its mode
\* is left alone), an error when it is something else; otherwise the parent
\* is made first and then path, with perm masked by the umask
RECURSIVE MkdirAll(_, _, _, _)
MkdirAll(d, p, perm, um) ==
    IF d[p].kind = "dir" THEN Ret(d, FALSE)
    ELSE IF d[p].kind # "none" THEN Ret(d, TRUE)
    ELSE LET up == IF p = Root THEN Ret(d, FALSE)
                   ELSE MkdirAll(d, Parent(p), perm, um)
         IN IF up.err THEN up
            ELSE Ret([up.disk EXCEPT ![p] = Dir(perm \ um)], FALSE)

\* os.Create(name): O_RDWR|O_CREATE|O_TRUNC, 0666. The parent must be a
\* directory; an existing file is truncated and keeps its mode
Create(d, p, um) ==
    IF p = Root \/ d[Parent(p)].kind # "dir" THEN Ret(d, TRUE)
    ELSE IF d[p].kind = "reg" THEN Ret([d EXCEPT ![p].data = <<>>], FALSE)
    ELSE IF d[p].kind = "none" THEN Ret([d EXCEPT ![p] = Reg(Mode666 \ um, <<>>)], FALSE)
    ELSE Ret(d, TRUE)

\* what an interrupted io.Copy leaves behind: all but the last byte
Partial(data) == IF data = <<>> THEN <<>> ELSE SubSeq(data, 1, Len(data) - 1)

--------------------------------------------------------------------------
(* Copy *)

CopyFileFaults == {"none", "open", "create", "copy", "stat", "chmod"}

\* copyFile(src, dst): both handles are closed by the deferred Close calls
copyFile(d, t, p, um, flt) ==
    IF flt = "open" THEN Ret(d, TRUE)
    ELSE LET c == Create(d, p, um) IN
         IF flt = "create" \/ c.err THEN Ret(d, TRUE)
         ELSE IF flt = "copy"
              THEN Ret([c.disk EXCEPT ![p].data = Partial(t[p].data)], TRUE)
         ELSE LET w == [c.disk EXCEPT ![p].data = t[p].data] IN
              IF flt \in {"stat", "chmod"} THEN Ret(w, TRUE)
              ELSE Ret([w EXCEPT ![p].mode = t[p].mode], FALSE)

Frame(p, s, todo) == [path |-> p, state |-> s, todo |-> todo]

Top == stack[Len(stack)]
Pop == SubSeq(stack, 1, Len(stack) - 1)

FsIdle ==
    /\ walk = <<>>
    /\ stream = [gzipOk |-> TRUE, entries |-> <<>>, end |-> "open"]
    /\ pos = 0
    /\ made = {}
NetIdle == net = [cl |-> 0]

\* the target of Copy or of Untar before the call
TargetChoices(t) ==
    {EmptyDisk, Same(t), PreDirs(t), Stale(t)}

InitFiles ==
    /\ op = "none"
    /\ tree \in Trees
    /\ umask \in UmaskChoices
    /\ disk \in TargetChoices(tree)
    /\ disk0 = disk
    /\ result = "init"
    /\ fault = "none"
    /\ openHandles = 0
    /\ stack = <<>>
    /\ FsIdle
    /\ NetIdle

\* an error returned up through every copyDir frame
CopyFail(d, flt) ==
    /\ disk' = d
    /\ result' = "err"
    /\ fault' = flt
    /\ stack' = <<>>

\* Copy(dst, src): Stat(src), MkdirAll(dst, mode of src), copyDir(src, dst)
Copy ==
    /\ op = "none" /\ result = "init"
    /\ op' = "Copy"
    /\ \E flt \in {"none", "stat", "mkdir"} :
        LET m == MkdirAll(disk, Root, tree[Root].mode, umask) IN
        IF flt # "none" \/ m.err
        THEN CopyFail(disk, flt) /\ UNCHANGED openHandles
        ELSE /\ disk' = m.disk
             /\ result' = "running"
             /\ stack' = <<Frame(Root, "enter", {})>>
             /\ UNCHANGED <<fault, openHandles>>
    /\ UNCHANGED <<tree, disk0, umask, walk, stream, pos, made, net>>

\* copyDir up to its loop: Stat(src), MkdirAll(dst), Open(src), Readdir(-1).
\* The directory handle is never closed.
copyDirEnter ==
    /\ op = "Copy" /\ result = "running" /\ stack # <<>> /\ Top.state = "enter"
    /\ \E flt \in {"none", "stat", "mkdir", "open", "readdir"} :
        LET p == Top.path
            m == MkdirAll(disk, p, tree[p].mode, umask) IN
        IF flt \in {"stat", "mkdir"} \/ (flt = "none" /\ m.err)
        THEN CopyFail(disk, flt) /\ UNCHANGED openHandles
        ELSE IF m.err THEN FALSE
        ELSE IF flt = "open" THEN CopyFail(m.disk, flt) /\ UNCHANGED openHandles
        ELSE IF flt = "readdir" THEN CopyFail(m.disk, flt) /\ openHandles' = openHandles + 1
        ELSE /\ disk' = m.disk
             /\ openHandles' = openHandles + 1
             /\ stack' = Append(Pop, Frame(p, "loop", Children(tree, p)))
             /\ UNCHANGED <<result, fault>>
    /\ UNCHANGED <<op, tree, disk0, umask, walk, stream, pos, made, net>>

\* one iteration of copyDir's loop, on an entry Readdir returned
copyDirEntry ==
    /\ op = "Copy" /\ result = "running" /\ stack # <<>> /\ Top.state = "loop"
    /\ \E n \in Top.todo :
        LET p == Append(Top.path, n)
            rest == Frame(Top.path, "loop", Top.todo \ {n}) IN
        CASE IsDir(tree[p]) ->
                /\ stack' = Append(Append(Pop, rest), Frame(p, "enter", {}))
                /\ UNCHANGED <<disk, result, fault>>
          [] IsRegular(tree[p]) ->
                \E flt \in CopyFileFaults :
                    LET c == copyFile(disk, tree, p, umask, flt) IN
                    IF c.err THEN CopyFail(c.disk, flt)
                    ELSE /\ disk' = c.disk
                         /\ stack' = Append(Pop, rest)
                         /\ UNCHANGED <<result, fault>>
          [] OTHER ->
                /\ stack' = Append(Pop, rest)
                /\ UNCHANGED <<disk, result, fault>>
    /\ UNCHANGED <<op, tree, disk0, umask, openHandles, walk, stream, pos, made, net>>

\* copyDir returns nil once the loop is over
copyDirReturn ==
    /\ op = "Copy" /\ result = "running" /\ stack # <<>> /\ Top.state = "loop" /\ Top.todo = {}
    /\ stack' = Pop
    /\ result' = IF Len(stack) = 1 THEN "nil" ELSE "running"
    /\ UNCHANGED <<op, tree, disk0, disk, umask, fault, openHandles, walk, stream, pos, made, net>>

--------------------------------------------------------------------------
(* Tar *)

\* the length of the longest archive read by Untar on its own
MaxEntries == 3

Entry(n, m, sz, tf, d) ==
    [name |-> n, mode |-> m, size |-> sz, typeflag |-> tf, data |-> d]

\* a stream: gzipOk is false when the gzip header cannot be decoded; end is
\* "open" while it is written, "trailer" when the tar end marker was written,
\* "notrailer" when the gzip stream is complete and the tar data in it stops
\* without the marker, "cut" when the compressed stream itself is cut short
Stream(ok, es, end) == [gzipOk |-> ok, entries |-> es, end |-> end]

\* filepath.Walk: the root, then the entries of a directory in lexical
\* order, each followed by what is below it
RECURSIVE WalkFrom(_, _), WalkNames(_, _, _)
WalkFrom(t, p) ==
    <<p>> \o (IF t[p].kind = "dir" /\ Len(p) < MaxDepth
              THEN WalkNames(t, p, 1) ELSE <<>>)
WalkNames(t, p, i) ==
    IF i > Len(NameOrder) THEN <<>>
    ELSE (IF t[Append(p, NameOrder[i])].kind # "none"
          THEN WalkFrom(t, Append(p, NameOrder[i])) ELSE <<>>)
         \o WalkNames(t, p, i + 1)

\* the header Tar writes for a regular file: the walked path, the mode and
\* the size, Typeflag TypeReg
Header(t, p) == Entry(p, t[p].mode, Len(t[p].data), "reg", <<>>)

\* the deferred tw.Close() and gzw.Close(): the end marker is written unless
\* the last entry is short of its size or a header write failed
CloseArchive(es, flt) ==
    IF flt = "header" THEN Stream(TRUE, es, "cut")
    ELSE IF es # <<>> /\ Len(es[Len(es)].data) < es[Len(es)].size
         THEN Stream(TRUE, es, "notrailer")
    ELSE Stream(TRUE, es, "trailer")

\* Tar up to the call of filepath.Walk
Tar ==
    /\ op = "none" /\ result = "init"
    /\ op' = "Tar"
    /\ result' = "running"
    /\ walk' = WalkFrom(tree, Root)
    /\ UNCHANGED <<tree, disk0, disk, umask, fault, openHandles, stack, stream, pos, made, net>>

TarFail(es, flt) ==
    /\ stream' = CloseArchive(es, flt)
    /\ result' = "err"
    /\ fault' = flt
    /\ walk' = <<>>

\* the walk function on one visited path; the file it opens is closed by
\* the deferred Close when the function returns
TarVisit ==
    /\ op = "Tar" /\ result = "running" /\ walk # <<>>
    /\ LET p == Head(walk)
           es == stream.entries IN
       \E flt \in {"none", "walk", "header", "open", "copy"} :
           IF flt = "walk" THEN TarFail(es, flt)
           ELSE IF ~IsRegular(tree[p])
           THEN /\ flt = "none"
                /\ walk' = Tail(walk)
                /\ UNCHANGED <<stream, result, fault>>
           ELSE IF flt = "header" THEN TarFail(es, flt)
           ELSE IF flt = "open" THEN TarFail(Append(es, Header(tree, p)), flt)
           ELSE IF flt = "copy"
           THEN TarFail(Append(es, [Header(tree, p) EXCEPT !.data = Partial(tree[p].data)]), flt)
           ELSE /\ stream' = [stream EXCEPT !.entries =
                                 Append(es, [Header(tree, p) EXCEPT !.data = tree[p].data])]
                /\ walk' = Tail(walk)
                /\ UNCHANGED <<result, fault>>
    /\ UNCHANGED <<op, tree, disk0, disk, umask, openHandles, stack, pos, made, net>>

\* filepath.Walk returns nil, Tar returns it
TarReturn ==
    /\ op = "Tar" /\ result = "running" /\ walk = <<>>
    /\ stream' = CloseArchive(stream.entries, "none")
    /\ result' = "nil"
    /\ UNCHANGED <<op, tree, disk0, disk, umask, fault, openHandles, stack, walk, pos, made, net>>

--------------------------------------------------------------------------
(* Untar *)

\* Untar up to its loop: gzip.NewReader returns a nil reader with its error,
\* and the deferred gzr.Close() then dereferences it when Untar returns
Untar ==
    /\ \/ op = "Tar" /\ result = "nil"
       \/ op = "none" /\ stream.end # "open"
    /\ op' = "Untar"
    /\ pos' = 1
    /\ result' = IF stream.gzipOk THEN "running" ELSE "panic"
    /\ UNCHANGED <<tree, disk0, disk, umask, fault, openHandles, stack, walk, stream, made, net>>

\* Untar returns: the deferred f.Close() of every file created runs now
UntarReturn(d, r, flt, m) ==
    /\ disk' = d
    /\ result' = r
    /\ fault' = flt
    /\ made' = m
    /\ openHandles' = 0
    /\ UNCHANGED pos

\* the data io.Copy(f, tr) reads: the body, which may stop short of Size
\* at the end of a truncated stream
Body(e) == IF Len(e.data) < e.size THEN e.data ELSE SubSeq(e.data, 1, e.size)

\* a mutation of UntarUnknown: the entry is skipped and the loop goes on
UntarUnknownSkipped(e, flt) ==
    /\ flt = "none"
    /\ pos' = pos + 1
    /\ UNCHANGED <<disk, result, fault, made, openHandles>>

\* the default case of the switch: an error naming the type and the entry
UntarUnknown(e, flt) ==
    /\ flt = "none"
    /\ UntarReturn(disk, "err", flt, made)

\* the switch on header.Typeflag for the entry e
UntarEntry(e, flt) ==
    CASE e.typeflag = "dir" ->
            LET m == MkdirAll(disk, e.name, e.mode, umask) IN
            IF flt = "mkdir" \/ (flt = "none" /\ m.err)
            THEN UntarReturn(disk, "err", flt, made)
            ELSE /\ flt = "none"
                 /\ disk' = m.disk
                 /\ made' = made \cup {pos}
                 /\ pos' = pos + 1
                 /\ UNCHANGED <<result, fault, openHandles>>
      [] e.typeflag = "reg" ->
            LET c == Create(disk, e.name, umask) IN
            IF flt = "create" \/ (flt = "none" /\ c.err)
            THEN UntarReturn(disk, "err", flt, made)
            ELSE IF flt = "copy"
            THEN ~c.err /\ UntarReturn([c.disk EXCEPT ![e.name].data = Partial(Body(e))],
                             "err", flt, made \cup {pos})
            ELSE IF Len(e.data) < e.size
            THEN /\ flt = "none"
                 /\ UntarReturn([c.disk EXCEPT ![e.name].data = Body(e)],
                                "err", flt, made \cup {pos})
            ELSE /\ flt = "none"
                 /\ disk' = [c.disk EXCEPT ![e.name].data = Body(e)]
                 /\ made' = made \cup {pos}
                 /\ pos' = pos + 1
                 /\ openHandles' = openHandles + 1
                 /\ UNCHANGED <<result, fault>>
      [] OTHER -> UntarUnknown(e, flt)

\* one iteration of Untar's loop
UntarNext ==
    /\ op = "Untar" /\ result = "running"
    /\ IF pos > Len(stream.entries)
       THEN UntarReturn(disk, IF stream.end = "cut" THEN "err" ELSE "nil", fault, made)
       ELSE \E flt \in {"none", "mkdir", "create", "copy"} :
                UntarEntry(stream.entries[pos], flt)
    /\ UNCHANGED <<op, tree, disk0, umask, stack, walk, stream, net>>

NextFiles ==
    \/ Copy \/ copyDirEnter \/ copyDirEntry \/ copyDirReturn
    \/ Tar \/ TarVisit \/ TarReturn
    \/ Untar \/ UntarNext

SpecFiles == InitFiles /\ [][NextFiles]_vars

\* archives that did not come from Tar
EntryNames == {<<DirName>>, <<DirName, FileName>>, <<FileName>>}
ForeignEntries ==
    {Entry(n, Mode775, 0, "dir", <<>>) : n \in EntryNames}
    \cup {Entry(n, Mode644, Len(SrcData), "reg", SrcData) : n \in EntryNames}
    \cup {Entry(n, Mode775, 0, "symlink", <<>>) : n \in EntryNames}
ForeignSeqs == UNION {[1..n -> ForeignEntries] : n \in 0..MaxEntries}
\* a stream that stops inside the body of its last entry
CutBody(es) == [es EXCEPT ![Len(es)].data = Partial(es[Len(es)].data)]
ForeignStreams ==
    {Stream(FALSE, <<>>, "cut")}
    \cup {Stream(TRUE, es, end) :
            es \in ForeignSeqs, end \in {"trailer", "notrailer", "cut"}}
    \cup {Stream(TRUE, CutBody(es), end) :
            es \in {x \in ForeignSeqs : x # <<>> /\ x[Len(x)].typeflag = "reg"},
            end \in {"notrailer", "cut"}}

RootOnly == [EmptyDisk EXCEPT ![Root] = Dir(Mode775)]

InitUntar ==
    /\ op = "none"
    /\ tree = EmptyDisk
    /\ umask \in UmaskChoices
    /\ disk \in {EmptyDisk, RootOnly}
    /\ disk0 = disk
    /\ stream \in ForeignStreams
    /\ result = "init"
    /\ fault = "none"
    /\ openHandles = 0
    /\ stack = <<>>
    /\ walk = <<>>
    /\ pos = 0
    /\ made = {}
    /\ NetIdle

NextUntar == Untar \/ UntarNext

SpecUntar == InitUntar /\ [][NextUntar]_vars
--------------------------------------------------------------------------
(* Download and Progress *)

\* the most full buffers a response body holds
MaxChunks == 2

\* p := make([]byte, 2048)
BufSize == 2048

Min(a, b) == IF a < b THEN a ELSE b

BodyLens == {k * BufSize + r : k \in 0..MaxChunks, r \in {0, 1}}

\* the response: ContentLength is -1 when the length is unknown, and the
\* body holds ContentLength bytes when it is known
Responses == {[cl |-> -1, total |-> n] : n \in BodyLens}
             \cup {[cl |-> n, total |-> n] : n \in BodyLens}

Session(r) ==
    [cl |-> r.cl, total |-> r.total, left |-> r.total,
     down |-> 0, sink |-> 0, err |-> "none", log |-> <<>>]

InitFetch ==
    /\ op = "none"
    /\ net \in {Session(r) : r \in Responses}
    /\ result = "init"
    /\ fault = "none"
    /\ openHandles = 0
    /\ tree = EmptyDisk
    /\ disk = EmptyDisk
    /\ disk0 = disk
    /\ umask = {}
    /\ stack = <<>>
    /\ FsIdle

\* http.Get failed. The response is nil, and the defer statement's
\* res.Body dereferences it, unless the failure is a refused redirect, which
\* comes with a response whose body is closed already
GetFailed(resNil) ==
    /\ fault' = "get"
    /\ result' = IF resNil THEN "panic" ELSE "err"
    /\ net' = [net EXCEPT !.err = IF resNil THEN "none" ELSE "get"]

\* Download: http.Get, ioutil.ReadAll, w.Write. A failed read ends in
\* config.Fatal, which logs and exits the process; the result of w.Write is
\* dropped
Download ==
    /\ op = "none" /\ result = "init"
    /\ op' = "Download"
    /\ \E flt \in {"none", "get", "read", "write"} :
        CASE flt = "get" -> \E resNil \in BOOLEAN : GetFailed(resNil)
          [] flt = "read" ->
                /\ fault' = flt
                /\ result' = "exit"
                /\ UNCHANGED net
          [] flt = "write" ->
                /\ fault' = flt
                /\ result' = "nil"
                /\ net' = [net EXCEPT !.left = 0]
          [] OTHER ->
                /\ fault' = fault
                /\ result' = "nil"
                /\ net' = [net EXCEPT !.left = 0, !.sink = net.total]
    /\ UNCHANGED <<tree, disk0, disk, umask, openHandles, stack, walk, stream, pos, made>>

\* Progress up to its loop: http.Get and the deferred Body.Close()
Progress ==
    /\ op = "none" /\ result = "init"
    /\ op' = "Progress"
    /\ \E flt \in {"none", "get"} :
        IF flt = "get" THEN \E resNil \in BOOLEAN : GetFailed(resNil)
        ELSE /\ result' = "running"
             /\ UNCHANGED <<fault, net>>
    /\ UNCHANGED <<tree, disk0, disk, umask, openHandles, stack, walk, stream, pos, made>>

\* a float64: a number, kept in hundredths, or NaN or +Inf
Num(h) == [class |-> "num", hundredths |-> h]
NaN == [class |-> "nan", hundredths |-> 0]
Inf == [class |-> "inf", hundredths |-> 0]

\* the quotient of a / b in hundredths, rounded toward zero
Hundredths(a, b) ==
    IF b > 0 THEN (a * 100) \div b ELSE -((a * 100) \div (-b))

\* percent = (float64(down) / float64(download.ContentLength)) * 100
Percent(down, cl) ==
    IF cl = 0 THEN (IF down = 0 THEN NaN ELSE Inf)
    ELSE Num(Hundredths(down * 100, cl))

\* int(percent/2.5): truncation toward zero for a number in range. The
\* conversion of NaN or of an infinity is implementation-dependent in Go: the
\* most negative int on amd64, 0 or the most positive int elsewhere
ImplDependent == {-(2^30), 0, 2^30}
RepeatCounts(pct) ==
    IF pct.class = "num"
    THEN {IF pct.hundredths >= 0 THEN pct.hundredths \div 250
          ELSE -((-pct.hundredths) \div 250)}
    ELSE ImplDependent

\* the widest progress bar that fits in memory
RepeatFits(c) == c < 2^30

\* strings.Repeat("*", count) panics on a negative count and cannot
\* allocate an out-of-range one
RepeatPanics(c) == c < 0 \/ ~RepeatFits(c)

\* what Body.Read may return with left bytes to come: a full buffer or half
\* of one, the last bytes with or without io.EOF, (0, io.EOF) at the end
ReadSizes(left) == {Min(left, BufSize), Min(left, BufSize \div 2)}

Reads(left) ==
    {[n |-> n, err |-> e] : n \in ReadSizes(left) \ {0}, e \in {"nil"}}
    \cup (IF left <= BufSize THEN {[n |-> left, err |-> "eof"]} ELSE {})
    \cup {[n |-> n, err |-> "read"] : n \in {0, Min(left, BufSize) \div 2}}

\* one iteration of Progress's loop: Read, Write (its result dropped),
\* down += n, percent, Printf, and the test of the read's error
ProgressStep(rd, wrote) ==
    LET down == net.down + rd.n
        pct == Percent(down, net.cl)
        flt == IF rd.err = "read" THEN "read"
               ELSE IF wrote < rd.n THEN "write" ELSE "none"
        it == [down |-> down, sink |-> net.sink + wrote, pct |-> pct]
    IN /\ fault' = IF fault = "none" THEN flt ELSE fault
       /\ \E c \in RepeatCounts(pct) :
            IF RepeatPanics(c)
            THEN /\ result' = "panic"
                 /\ net' = [net EXCEPT !.left = net.left - rd.n, !.down = down,
                                       !.sink = net.sink + wrote]
            ELSE /\ result' = CASE rd.err = "eof" -> "nil"
                                [] rd.err = "read" -> "err"
                                [] OTHER -> "running"
                 /\ net' = [net EXCEPT !.left = net.left - rd.n, !.down = down,
                                       !.sink = net.sink + wrote,
                                       !.err = IF rd.err = "read" THEN "read" ELSE "none",
                                       !.log = Append(net.log, it)]

ProgressRead ==
    /\ op = "Progress" /\ result = "running"
    /\ \E rd \in Reads(net.left) : \E wrote \in {rd.n, 0} :
        ProgressStep(rd, wrote)
    /\ UNCHANGED <<op, tree, disk0, disk, umask, openHandles, stack, walk, stream, pos, made>>

NextFetch == Download \/ Progress \/ ProgressRead

SpecFetch == InitFetch /\ [][NextFetch]_vars
--------------------------------------------------------------------------
(* Properties *)

Done == result \notin {"init", "running"}

RegPaths(t) == {p \in Paths : t[p].kind = "reg"}
DirPaths(t) == {p \in Paths : t[p].kind = "dir"}
OtherPaths(t) == {p \in Paths : t[p].kind = "other"}

\* C1: when Tar and then Untar have returned nil, every regular file of the
\* tree is on the disk at the same path with the same content and the same
\* mode bits
C1_RoundTripIdentity ==
    (op = "Untar" /\ result = "nil") =>
        \A p \in RegPaths(tree) :
            /\ disk[p].kind = "reg"
            /\ disk[p].data = tree[p].data
            /\ disk[p].mode = tree[p].mode

\* the tree {a/f1, a/b/f2}, a being the root
ExampleTree(t) ==
    /\ RegPaths(t) = {<<FileName>>, <<DirName, FileName>>}
    /\ DirPaths(t) = {Root, <<DirName>>}
    /\ OtherPaths(t) = {}

\* C2: Untar of the archive Tar made of {a/f1, a/b/f2}, run where neither a
\* nor a/b exists, returns nil and leaves both files and both directories
C2_RestoreIntoEmpty ==
    (op = "Untar" /\ Done /\ fault = "none" /\ ExampleTree(tree) /\ disk0 = EmptyDisk) =>
        /\ result = "nil"
        /\ RegPaths(disk) = RegPaths(tree)
        /\ DirPaths(disk) = DirPaths(tree)

\* C3: after Copy returned nil the destination holds the regular files of
\* the source, with their content, and the mode bits of every directory and
\* of every file are those of the source
C3_CopyFidelity ==
    (op = "Copy" /\ result = "nil") =>
        /\ RegPaths(disk) = RegPaths(tree)
        /\ \A p \in RegPaths(tree) : disk[p].data = tree[p].data
        /\ \A p \in RegPaths(tree) \cup DirPaths(tree) :
            disk[p].kind = tree[p].kind /\ disk[p].mode = tree[p].mode

\* the names of the entries of an archive
EntryPaths(es) == {es[i].name : i \in 1..Len(es)}

\* C9: on a tree with an entry that is neither a regular file nor a
\* directory, Copy and Tar return nil when no system call fails; Copy has
\* copied every regular file and made nothing for the other entry, Tar has
\* archived exactly the regular files, each with its content
C9_NonRegularSkip ==
    (OtherPaths(tree) # {} /\ Done /\ fault = "none") =>
        /\ op = "Copy" =>
            /\ result = "nil"
            /\ \A p \in RegPaths(tree) :
                disk[p].kind = "reg" /\ disk[p].data = tree[p].data
            /\ \A p \in OtherPaths(tree) : disk[p].kind = "none"
        /\ op = "Tar" =>
            /\ result = "nil"
            /\ stream.end = "trailer"
            /\ EntryPaths(stream.entries) = RegPaths(tree)
            /\ Len(stream.entries) = Cardinality(RegPaths(tree))
            /\ \A i \in 1..Len(stream.entries) :
                LET e == stream.entries[i] IN
                /\ e.typeflag = "reg"
                /\ e.data = tree[e.name].data
                /\ e.size = Len(e.data)

\* a tree with a non-regular entry beside regular files, archived
C9_Witness ==
    /\ op = "Tar" /\ result = "nil" /\ fault = "none"
    /\ OtherPaths(tree) # {}
    /\ Cardinality(RegPaths(tree)) >= 1
    /\ Len(stream.entries) >= 1

\* C10: when Copy, Tar or Untar has returned, with nil or with an error, no
\* handle the call opened is still open
C10_HandlesReleased ==
    (op \in {"Copy", "Tar", "Untar"} /\ Done) => openHandles = 0

\* the index of the first entry that is neither a regular file nor a
\* directory, 0 when there is none
Unknown(e) == e.typeflag \notin {"reg", "dir"}
FirstUnknown(es) ==
    IF \E i \in 1..Len(es) : Unknown(es[i])
    THEN CHOOSE i \in 1..Len(es) :
            Unknown(es[i]) /\ \A j \in 1..(i - 1) : ~Unknown(es[j])
    ELSE 0

\* C6: Untar reads no header past the first entry of unknown type and
\* makes nothing for it or for a later entry; once it has read that header
\* it has returned an error, and what the entries before it made is on disk
C6_UnknownEntryRejected ==
    LET es == stream.entries
        k == FirstUnknown(es) IN
    (op = "Untar" /\ k > 0) =>
        /\ pos <= k
        /\ made \subseteq 1..(k - 1)
        /\ (pos = k /\ Done) =>
            /\ result = "err"
            /\ made = 1..(k - 1)
            /\ \A i \in 1..(k - 1) :
                /\ disk[es[i].name].kind = es[i].typeflag
                /\ es[i].typeflag = "reg" => disk[es[i].name].data = es[i].data

\* an unknown entry after a materialized one and before another entry
C6_Witness ==
    /\ op = "Untar" /\ result = "err" /\ fault = "none"
    /\ Len(stream.entries) = 3
    /\ FirstUnknown(stream.entries) = 2
    /\ pos = 2
    /\ made = {1}

\* C8: given a stream that is not valid gzip or that ends before the end
\* marker of the container, Untar returns an error: it neither panics nor
\* returns nil
C8_DecodeFailureReturned ==
    (op = "Untar" /\ Done /\ fault = "none"
        /\ (~stream.gzipOk \/ stream.end # "trailer")) => result = "err"

InRange(pct) == pct.class = "num" /\ pct.hundredths >= 0 /\ pct.hundredths <= 10000

\* C4: with a ContentLength of 0 or less Progress does not crash; when no
\* call fails it returns nil with every byte of the body in the sink
C4_UnknownLengthGuard ==
    (op = "Progress" /\ net.cl <= 0 /\ fault = "none") =>
        /\ result # "panic"
        /\ Done => (result = "nil" /\ net.sink = net.total)

\* C5: in a Progress call that returned nil on a body of known length N,
\* down never decreased, the sink held down bytes after every iteration,
\* every percent lay in [0,100] and down is N
C5_ProgressMonotone ==
    (op = "Progress" /\ result = "nil" /\ net.cl >= 0) =>
        /\ \A i \in 1..Len(net.log) :
            /\ net.log[i].sink = net.log[i].down
            /\ InRange(net.log[i].pct)
            /\ i > 1 => net.log[i].down >= net.log[i - 1].down
        /\ net.down = net.cl

\* C7: after a failed GET, a failed body read or a failed sink write,
\* Download and Progress have stopped and returned that error
C7_FailFast ==
    (op \in {"Download", "Progress"} /\ fault # "none") =>
        (result = "err" /\ net.err = fault)

====
